---- MODULE Spec2Model ----
(***************************************************************************)
(* make-invoices (main.go): the monthly run that reads the work days from  *)
(* a calendar, writes them into the month's page of each work spreadsheet, *)
(* and fills a copy of the work document template.  The program is one     *)
(* sequential process; the remote services (calendar, sheets, drive, docs) *)
(* are state the process reads and changes one request at a time.          *)
(***************************************************************************)
EXTENDS Integers, Sequences, FiniteSets, TLC

(* ------------------------------ bounds -------------------------------- *)
\* first and last year of the target months explored
MinYear == 2000
MaxYear == 2030
\* longest work-day list handed to updateAndDownloadWorkSpreadsheets
MaxWorkDays == 2
\* most groups of events the calendar holds
MaxGroups == 2
\* most pages a spreadsheet holds before the run
MaxPages == 3
\* most files (besides the template) in the template's folder
MaxFiles == 3
\* files per page of a drive listing
PageSize == 2
\* runs of the program in succession
MaxRuns == 2

(* -------------------------- program constants ------------------------- *)
\* MaxResults(999) of the events query
MaxResults == 999
\* for i := 1; i <= 31; i++
ColumnLen == 31
\* i > 12 ends the slot walk
MaxSlots == 12
\* strconv.Itoa((i-1)*8), and the hours of one slot
HoursPerDay == 8

(* ------------------------------ time.Time ----------------------------- *)
\* A time.Time is kept as its civil date [y, m, d] in its own location.
Date(y, m, d) == [y |-> y, m |-> m, d |-> d]

IsLeap(y) == (y % 4 = 0 /\ y % 100 # 0) \/ y % 400 = 0

DaysIn(y, m) ==
    IF m \in {4, 6, 9, 11} THEN 30
    ELSE IF m = 2 THEN (IF IsLeap(y) THEN 29 ELSE 28)
    ELSE 31

\* days of the year before month m of a common year
DaysBefore(m) == <<0, 31, 59, 90, 120, 151, 181, 212, 243, 273, 304, 334>>[m]

\* days from 0001-01-01 (a Monday) to the date
AbsDays(t) ==
    LET y1 == t.y - 1 IN
    y1 * 365 + (y1 \div 4) - (y1 \div 100) + (y1 \div 400)
      + DaysBefore(t.m) + (IF t.m > 2 /\ IsLeap(t.y) THEN 1 ELSE 0) + (t.d - 1)

\* t.Weekday(): 0 = Sunday .. 6 = Saturday
Weekday(t) == (AbsDays(t) + 1) % 7

Monday == 1
Wednesday == 3
Friday == 5

\* t.AddDate(0, n, 0) for a first-of-month t: the month is normalized
AddMonths(t, n) ==
    LET k == (t.y * 12 + (t.m - 1)) + n IN
    Date(k \div 12, (k % 12) + 1, t.d)

\* t.AddDate(0, 0, 1)
NextDay(t) ==
    IF t.d < DaysIn(t.y, t.m) THEN Date(t.y, t.m, t.d + 1)
    ELSE IF t.m < 12 THEN Date(t.y, t.m + 1, 1)
    ELSE Date(t.y + 1, 1, 1)

\* t.AddDate(0, 0, -1)
PrevDay(t) ==
    IF t.d > 1 THEN Date(t.y, t.m, t.d - 1)
    ELSE IF t.m > 1 THEN Date(t.y, t.m - 1, DaysIn(t.y, t.m - 1))
    ELSE Date(t.y - 1, 12, 31)

Pad2(n) == IF n < 10 THEN "0" \o ToString(n) ELSE ToString(n)

\* t.Format("200601")
FormatCompact(t) == ToString(t.y) \o Pad2(t.m)

\* t.Format("2006/01/02")
FormatSlashed(t) == ToString(t.y) \o "/" \o Pad2(t.m) \o "/" \o Pad2(t.d)

\* t.Format("1/2")
FormatMonthDay(t) == ToString(t.m) \o "/" \o ToString(t.d)

\* the title of the page to copy from: targetTime.AddDate(0, -1, 0).Format("200601")
PrevTitle(t) == FormatCompact(AddMonths(t, -1))

Range(s) == {s[i] : i \in 1..Len(s)}

Last(s) == s[Len(s)]

(* ------------------------------ variables ----------------------------- *)
VARIABLES
    pc,                 \* where the process stands
    fatalMsg,           \* the message of the log.Fatalf that ended the run, or ""
    run,                \* which run in succession this is
    ans,                \* var ans string, as scanned
    targetTime,         \* the first day of the target month
    config,             \* the loaded Config
    calendar,           \* the events the calendar holds, ordered by start
    workDays,           \* the collected work days
    cur,                \* index of spreadsheetID in config.WorkSpreadsheetIDs
    spreadsheet,        \* the page list fetched by Spreadsheets.Get
    targetSheetID,      \* var targetSheetID int64
    values,             \* the column built for D7:D37
    books,              \* the spreadsheets the store holds
    snap,               \* the spreadsheets as the previous run left them
    drive,              \* the files the drive holds
    template,           \* the template's metadata as fetched
    targetDocumentName, \* the computed name of the month's document
    listing,            \* the folder listing being paged through
    nextPageToken,      \* offset of the next listing page, 0 for ""
    toDelete,           \* files of the current page still to delete
    f,                  \* the copy of the template
    req,                \* the replacement batch
    slots,              \* i - 1 after the slot walk
    log,                \* the remote calls and file writes issued, in order
    init0               \* the stores as they were before the first run

mainVars == <<ans, calendar, workDays>>
sheetVars == <<cur, spreadsheet, targetSheetID, values, books, snap, run>>
docVars == <<drive, template, targetDocumentName, listing, nextPageToken, toDelete, f, req, slots>>
vars == <<pc, fatalMsg, targetTime, config, log, init0, mainVars, sheetVars, docVars>>

(* ------------------- updateAndDownloadWorkSpreadsheets ---------------- *)
\* the search that skips the first page of the list
TargetSheetIDSkipFirst(sheets, t) ==
    LET hit == {i \in 2..Len(sheets) : sheets[i].title = FormatCompact(t)} IN
    IF hit = {} THEN 0
    ELSE sheets[CHOOSE i \in hit : \A j \in hit : j <= i].id

\* var targetSheetID int64; for _, s := range spreadsheet.Sheets { if title == ... }
TargetSheetID(sheets, t) ==
    LET hit == {i \in 1..Len(sheets) : sheets[i].title = FormatCompact(t)} IN
    IF hit = {} THEN 0
    ELSE sheets[CHOOSE i \in hit : \A j \in hit : j <= i].id

\* the search that falls back to the month before the previous one
CopyFromNearest(sheets, t) ==
    LET hit == {i \in 1..Len(sheets) : sheets[i].title = PrevTitle(t)}
        older == {i \in 1..Len(sheets) : sheets[i].title = FormatCompact(AddMonths(t, -2))} IN
    IF hit # {} THEN CHOOSE i \in hit : \A j \in hit : i <= j
    ELSE IF older # {} THEN CHOOSE i \in older : \A j \in older : i <= j
    ELSE 0

\* var copyFrom *sheets.Sheet: index of the first page titled with the
\* previous month, 0 for nil
CopyFrom(sheets, t) ==
    LET hit == {i \in 1..Len(sheets) : sheets[i].title = PrevTitle(t)} IN
    IF hit = {} THEN 0
    ELSE CHOOSE i \in hit : \A j \in hit : i <= j

\* the comparison with the month left out
IsWorkDayAnyMonth(t, d, i) == t.y = d.y /\ i = d.d

\* if targetTime.Year() == d.Year() && targetTime.Month() == d.Month() && i == d.Day()
IsWorkDay(t, d, i) == t.y = d.y /\ t.m = d.m /\ i = d.d

\* value := ""; for _, d := range workDays { if ... { value = config.WorkStartTime; break } }
CellValue(i, days, t, start) ==
    IF \E j \in 1..Len(days) : IsWorkDay(t, days[j], i) THEN start ELSE ""

\* values := ...; for i := 1; i <= 31; i++ { ... values = append(values, value) }
AttendanceColumn(t, days, start) ==
    [i \in 1..ColumnLen |-> CellValue(i, days, t, start)]

\* index of the page a range "<title>!..." addresses, 0 when there is none
PageTitled(sheets, title) ==
    LET hit == {i \in 1..Len(sheets) : sheets[i].title = title} IN
    IF hit = {} THEN 0 ELSE CHOOSE i \in hit : \A j \in hit : i <= j

PageWithID(sheets, id) ==
    CHOOSE i \in 1..Len(sheets) : sheets[i].id = id

\* the page moved to index 0 under its new title
RenameToFront(sheets, id, title) ==
    LET k == PageWithID(sheets, id) IN
    <<[sheets[k] EXCEPT !.title = title]>>
        \o SubSeq(sheets, 1, k - 1) \o SubSeq(sheets, k + 1, Len(sheets))

SheetIDs(sheets) == {sheets[i].id : i \in 1..Len(sheets)}

\* identifiers the store may give a copied page: unused and not 0
FreshSheetIDs(sheets) == (1..(Len(sheets) + 2)) \ SheetIDs(sheets)

spreadsheetID == config.WorkSpreadsheetIDs[cur]

Entry(op, idx, arg, ok) == [op |-> op, idx |-> idx, arg |-> arg, ok |-> ok]

\* the steps that issue a remote call or write a file, each of which may fail
SheetSteps == {"sheetsGet", "sheetsCopyTo", "sheetsBatchUpdate",
               "valuesUpdateM3", "valuesUpdateD7", "sheetExport", "sheetSave"}
DocSteps == {"filesGet", "filesList", "filesDelete", "filesCopy",
             "docsBatchUpdate", "filesExport", "docSave"}
FailSteps == {"eventsList"} \cup SheetSteps \cup DocSteps

\* if err != nil { log.Fatalf(...) }: the message of each step's failure
FatalMessage(step) ==
    CASE step = "eventsList" -> "Failed to retrieve calendar"
      [] step = "sheetsGet" -> "Failed to get spreadsheet"
      [] step = "sheetsCopyTo" -> "Failed to copy sheet"
      [] step = "sheetsBatchUpdate" -> "Failed to update sheet position"
      [] step = "valuesUpdateM3" -> "Failed to set work month to sheet"
      [] step = "valuesUpdateD7" -> "Failed to set work times to sheet"
      [] step = "sheetExport" -> "Failed to export spreadsheet"
      [] step = "sheetSave" -> "Failed to save spreadsheet pdf"
      [] step = "filesGet" -> "Failed to get template"
      [] step = "filesList" -> "Failed to retrieve files from drive"
      [] step = "filesDelete" -> "Failed to delete existing document"
      [] step = "filesCopy" -> "Failed to copy template"
      [] step = "docsBatchUpdate" -> "Failed to update document"
      [] step = "filesExport" -> "Failed to export document"
      [] step = "docSave" -> "Failed to save document pdf"

\* log.Fatalf ends the process: where a failed step leaves it
OnError(step) == "fatal"

\* the spreadsheet a step is about, 0 outside the loop over the spreadsheets
StepIdx(step) == IF step \in SheetSteps THEN cur ELSE 0

Fatal(step, entry) ==
    /\ pc' = OnError(step)
    /\ fatalMsg' = FatalMessage(step)
    /\ log' = Append(log, entry)

\* any remote call or file write returns an error
RemoteFails ==
    /\ pc \in FailSteps
    /\ Fatal(pc, Entry(pc, StepIdx(pc), 0, FALSE))
    /\ UNCHANGED <<targetTime, config, init0, mainVars, sheetVars, docVars>>

\* sht.Spreadsheets.Get, then the two searches through spreadsheet.Sheets
SheetsGet ==
    /\ pc = "sheetsGet"
    /\ LET sheets == books[spreadsheetID].sheets
           id == TargetSheetID(sheets, targetTime) IN
       /\ spreadsheet' = books[spreadsheetID]
       /\ targetSheetID' = id
       /\ log' = Append(log, Entry("sheetsGet", cur, 0, TRUE))
       /\ IF id # 0
          THEN pc' = "valuesUpdateM3" /\ fatalMsg' = fatalMsg
          ELSE IF CopyFrom(sheets, targetTime) = 0
          THEN pc' = "fatal" /\ fatalMsg' = "Failed to determine sheet to copy"
          ELSE pc' = "sheetsCopyTo" /\ fatalMsg' = fatalMsg
    /\ UNCHANGED <<targetTime, config, init0, mainVars, docVars,
                   cur, values, books, snap, run>>

\* sht.Spreadsheets.Sheets.CopyTo(spreadsheetID, copyFrom.Properties.SheetId, ...)
SheetsCopyTo ==
    /\ pc = "sheetsCopyTo"
    /\ LET sheets == books[spreadsheetID].sheets
           from == spreadsheet.sheets[CopyFrom(spreadsheet.sheets, targetTime)] IN
       \E id \in FreshSheetIDs(sheets) :
          /\ books' = [books EXCEPT ![spreadsheetID].sheets =
                 Append(sheets, [from EXCEPT !.id = id,
                                             !.title = "Copy of " \o from.title])]
          /\ targetSheetID' = id
          /\ log' = Append(log, Entry("sheetsCopyTo", cur, from.id, TRUE))
    /\ pc' = "sheetsBatchUpdate"
    /\ UNCHANGED <<fatalMsg, targetTime, config, init0, mainVars, docVars,
                   cur, spreadsheet, values, snap, run>>

\* UpdateSheetProperties{Fields: "title,index", Title: ..., Index: 0}; the
\* store refuses a title another page of the spreadsheet already has
SheetsBatchUpdate ==
    /\ pc = "sheetsBatchUpdate"
    /\ LET sheets == books[spreadsheetID].sheets
           title == FormatCompact(targetTime) IN
       IF \E i \in 1..Len(sheets) :
             sheets[i].title = title /\ sheets[i].id # targetSheetID
       THEN /\ Fatal(pc, Entry("sheetsBatchUpdate", cur, targetSheetID, FALSE))
            /\ books' = books
       ELSE /\ books' = [books EXCEPT ![spreadsheetID].sheets =
                   RenameToFront(sheets, targetSheetID, title)]
            /\ log' = Append(log, Entry("sheetsBatchUpdate", cur, targetSheetID, TRUE))
            /\ pc' = "valuesUpdateM3"
            /\ fatalMsg' = fatalMsg
    /\ UNCHANGED <<targetTime, config, init0, mainVars, docVars,
                   cur, spreadsheet, targetSheetID, values, snap, run>>

\* Values.Update(spreadsheetID, "<title>!M3:M3", {{targetTime.Format("2006/01/02")}})
ValuesUpdateM3 ==
    /\ pc = "valuesUpdateM3"
    /\ LET sheets == books[spreadsheetID].sheets
           k == PageTitled(sheets, FormatCompact(targetTime)) IN
       IF k = 0
       THEN /\ Fatal(pc, Entry("valuesUpdateM3", cur, 0, FALSE))
            /\ books' = books
       ELSE /\ books' = [books EXCEPT ![spreadsheetID].sheets[k].m3 =
                   FormatSlashed(targetTime)]
            /\ log' = Append(log, Entry("valuesUpdateM3", cur, sheets[k].id, TRUE))
            /\ pc' = "valuesUpdateD7"
            /\ fatalMsg' = fatalMsg
    /\ UNCHANGED <<targetTime, config, init0, mainVars, docVars,
                   cur, spreadsheet, targetSheetID, values, snap, run>>

\* the column is built, then Values.Update(spreadsheetID, "<title>!D7:D37", values)
ValuesUpdateD7 ==
    /\ pc = "valuesUpdateD7"
    /\ LET sheets == books[spreadsheetID].sheets
           k == PageTitled(sheets, FormatCompact(targetTime))
           column == AttendanceColumn(targetTime, workDays, config.WorkStartTime) IN
       /\ values' = column
       /\ IF k = 0
          THEN /\ Fatal(pc, Entry("valuesUpdateD7", cur, 0, FALSE))
               /\ books' = books
          ELSE /\ books' = [books EXCEPT ![spreadsheetID].sheets[k].col = column]
               /\ log' = Append(log, Entry("valuesUpdateD7", cur, sheets[k].id, TRUE))
               /\ pc' = "sheetExport"
               /\ fatalMsg' = fatalMsg
    /\ UNCHANGED <<targetTime, config, init0, mainVars, docVars,
                   cur, spreadsheet, targetSheetID, snap, run>>

\* client.Get(".../export?format=pdf&gid=<targetSheetID>") and ioutil.ReadAll
SheetExport ==
    /\ pc = "sheetExport"
    /\ log' = Append(log, Entry("sheetExport", cur, targetSheetID, TRUE))
    /\ pc' = "sheetSave"
    /\ UNCHANGED <<fatalMsg, targetTime, config, init0, mainVars, sheetVars, docVars>>

\* the export answers with an error status (4xx, 5xx): http.Client.Get returns
\* a nil error for it and resp.StatusCode is not looked at, so the body is
\* read and the run goes on
SheetExportRefused ==
    /\ pc = "sheetExport"
    /\ log' = Append(log, Entry("sheetExport", cur, targetSheetID, FALSE))
    /\ pc' = "sheetSave"
    /\ UNCHANGED <<fatalMsg, targetTime, config, init0, mainVars, sheetVars, docVars>>

\* ioutil.WriteFile of the pdf, then the next spreadsheet of the list
SheetSave ==
    /\ pc = "sheetSave"
    /\ log' = Append(log, Entry("sheetSave", cur, 0, TRUE))
    /\ IF cur < Len(config.WorkSpreadsheetIDs)
       THEN cur' = cur + 1 /\ pc' = "sheetsGet"
       ELSE cur' = cur /\ pc' = "sheetsReturned"
    /\ UNCHANGED <<fatalMsg, targetTime, config, init0, mainVars, docVars,
                   spreadsheet, targetSheetID, values, books, snap, run>>

\* the synchronization is run again with the same arguments
RunAgain ==
    /\ pc = "sheetsReturned"
    /\ run < MaxRuns
    /\ run' = run + 1
    /\ snap' = books
    /\ cur' = 1
    /\ pc' = "sheetsGet"
    /\ log' = <<>>
    /\ UNCHANGED <<fatalMsg, targetTime, config, init0, mainVars, docVars,
                   spreadsheet, targetSheetID, values, books>>

NextSheets ==
    \/ SheetsGet
    \/ SheetsCopyTo
    \/ SheetsBatchUpdate
    \/ ValuesUpdateM3
    \/ ValuesUpdateD7
    \/ SheetExport
    \/ SheetExportRefused
    \/ SheetSave
    \/ RemoteFails
    \/ RunAgain

(* -------------------- updateAndDownloadWorkDocuments ------------------ *)
\* A file name is kept as its pieces, so that the token "yyyymm" can be
\* found in it; the name itself is the pieces joined.
RECURSIVE Join(_)
Join(name) == IF name = <<>> THEN "" ELSE Head(name) \o Join(Tail(name))

\* strings.Replace(name, old, new, 1): only the first occurrence is replaced
RECURSIVE ReplaceFirst(_, _, _)
ReplaceFirst(name, old, new) ==
    IF name = <<>> THEN <<>>
    ELSE IF Head(name) = old THEN <<new>> \o Tail(name)
    ELSE <<Head(name)>> \o ReplaceFirst(Tail(name), old, new)

\* strings.Replace(template.Name, "yyyymm", targetTime.Format("200601"), 1)
TargetDocumentName(name, t) == Join(ReplaceFirst(name, "yyyymm", FormatCompact(t)))

\* makeReplaceRequest(key, value)
makeReplaceRequest(key, value) == [key |-> key, value |-> value]

DayKey(i) == "{{day" \o ToString(i) \o "}}"
HoursKey(i) == "{{day" \o ToString(i) \o "Hours}}"

\* the switch with time.Tuesday in the place of time.Wednesday
IsSlotDayTuesday(d) == Weekday(d) \in {Monday, 2, Friday}

\* the switch without its time.Wednesday case
IsSlotDayMonFri(d) == Weekday(d) \in {Monday, Friday}

\* case time.Monday, time.Wednesday, time.Friday
IsSlotDay(d) == Weekday(d) \in {Monday, Wednesday, Friday}

\* the walk without its bound on i
RECURSIVE SlotWalkUncapped(_, _, _, _)
SlotWalkUncapped(d, i, r, t) ==
    IF d.m # t.m THEN [i |-> i, req |-> r]
    ELSE IF IsSlotDay(d)
    THEN SlotWalkUncapped(NextDay(d), i + 1,
                  r \o <<makeReplaceRequest(DayKey(i), FormatMonthDay(d)),
                         makeReplaceRequest(HoursKey(i), ToString(HoursPerDay))>>, t)
    ELSE SlotWalkUncapped(NextDay(d), i, r, t)

\* for { if i > 12 || d.Month() != targetTime.Month() { break } ... d = d.AddDate(0, 0, 1) }
RECURSIVE SlotWalk(_, _, _, _)
SlotWalk(d, i, r, t) ==
    IF i > MaxSlots \/ d.m # t.m THEN [i |-> i, req |-> r]
    ELSE IF IsSlotDay(d)
    THEN SlotWalk(NextDay(d), i + 1,
                  r \o <<makeReplaceRequest(DayKey(i), FormatMonthDay(d)),
                         makeReplaceRequest(HoursKey(i), ToString(HoursPerDay))>>, t)
    ELSE SlotWalk(NextDay(d), i, r, t)

\* for i <= 12 { ... "" ...; i++ }
RECURSIVE BlankSlots(_, _)
BlankSlots(i, r) ==
    IF i > MaxSlots THEN r
    ELSE BlankSlots(i + 1, r \o <<makeReplaceRequest(DayKey(i), ""),
                                  makeReplaceRequest(HoursKey(i), "")>>)

\* req := []*docs.Request{year, month, day}, the walk, totalHours, the blanks
BuildRequests(t) ==
    LET head == <<makeReplaceRequest("{{year}}", ToString(t.y)),
                  makeReplaceRequest("{{month}}", ToString(t.m)),
                  makeReplaceRequest("{{day}}", ToString(PrevDay(AddMonths(t, 1)).d))>>
        w == SlotWalk(t, 1, head, t)
        total == makeReplaceRequest("{{totalHours}}", ToString((w.i - 1) * HoursPerDay))
    IN [slots |-> w.i - 1, req |-> BlankSlots(w.i, Append(w.req, total))]

\* Q("'<folderID>' in parents")
InFolder(files, folderID) ==
    SelectSeq(files, LAMBDA x : folderID \in Range(x.parents))

Min(a, b) == IF a < b THEN a ELSE b

\* one page of the listing, from the offset the page token stands for
ListingPage(files, token) == SubSeq(files, token + 1, Min(token + PageSize, Len(files)))

\* a listing that never says there is a further page
NoNextPage(files, token) == 0

\* files.NextPageToken, 0 for ""
NextPageToken(files, token) ==
    IF token + PageSize >= Len(files) THEN 0 ELSE token + PageSize

\* for _, f := range files.Files { if f.Name == targetDocumentName { ... } }
RECURSIVE Matching(_, _)
Matching(page, name) ==
    IF page = <<>> THEN <<>>
    ELSE IF Join(Head(page).name) = name
    THEN <<Head(page).id>> \o Matching(Tail(page), name)
    ELSE Matching(Tail(page), name)

\* where the listing loop stands once `left` files of the page remain to delete
AfterPage(left, token) ==
    IF left # <<>> THEN "filesDelete"
    ELSE IF token = 0 THEN "filesCopy"
    ELSE "filesList"

FileIDs(files) == {files[i].id : i \in 1..Len(files)}

WithoutFile(files, id) == SelectSeq(files, LAMBDA x : x.id # id)

\* the identifier the drive gives the copy
FreshFileID == Len(init0.drive) + 1

\* drv.Files.Get(config.WorkDocumentTemplateID).Fields("parents, id, name"),
\* folderID := template.Parents[0], targetDocumentName := ...
FilesGet ==
    /\ pc = "filesGet"
    /\ LET hit == {i \in 1..Len(drive) : drive[i].id = config.WorkDocumentTemplateID} IN
       IF hit = {}
       THEN /\ Fatal(pc, Entry("filesGet", 0, config.WorkDocumentTemplateID, FALSE))
            /\ UNCHANGED <<template, targetDocumentName>>
       ELSE LET t == drive[CHOOSE i \in hit : TRUE] IN
            /\ template' = t
            /\ log' = Append(log, Entry("filesGet", 0, t.id, TRUE))
            /\ IF t.parents = <<>>
               THEN /\ pc' = "panic"
                    /\ fatalMsg' = "index out of range"
                    /\ targetDocumentName' = targetDocumentName
               ELSE /\ pc' = "filesList"
                    /\ fatalMsg' = fatalMsg
                    /\ targetDocumentName' = TargetDocumentName(t.name, targetTime)
    /\ nextPageToken' = 0
    /\ UNCHANGED <<targetTime, config, init0, mainVars, sheetVars,
                   drive, listing, toDelete, f, req, slots>>

\* drv.Files.List()...PageToken(nextPageToken).Do(), and the scan of the page;
\* a page token continues the listing of the folder as it was at the first call
FilesList ==
    /\ pc = "filesList"
    /\ LET all == IF nextPageToken = 0
                  THEN InFolder(drive, template.parents[1])
                  ELSE listing
           page == ListingPage(all, nextPageToken)
           left == Matching(page, targetDocumentName)
           token == NextPageToken(all, nextPageToken) IN
       /\ listing' = all
       /\ toDelete' = left
       /\ nextPageToken' = token
       /\ pc' = AfterPage(left, token)
    /\ log' = Append(log, Entry("filesList", 0, nextPageToken, TRUE))
    /\ UNCHANGED <<fatalMsg, targetTime, config, init0, mainVars, sheetVars,
                   drive, template, targetDocumentName, f, req, slots>>

\* drv.Files.Delete(f.Id).Do()
FilesDelete ==
    /\ pc = "filesDelete"
    /\ LET id == Head(toDelete) IN
       IF id \notin FileIDs(drive)
       THEN /\ Fatal(pc, Entry("filesDelete", 0, id, FALSE))
            /\ UNCHANGED <<drive, toDelete>>
       ELSE /\ drive' = WithoutFile(drive, id)
            /\ toDelete' = Tail(toDelete)
            /\ log' = Append(log, Entry("filesDelete", 0, id, TRUE))
            /\ pc' = AfterPage(Tail(toDelete), nextPageToken)
            /\ fatalMsg' = fatalMsg
    /\ UNCHANGED <<targetTime, config, init0, mainVars, sheetVars,
                   template, targetDocumentName, listing, nextPageToken, f, req, slots>>

\* drv.Files.Copy(config.WorkDocumentTemplateID, {Name: targetDocumentName,
\* Parents: {folderID}}); a file that was deleted cannot be copied
FilesCopy ==
    /\ pc = "filesCopy"
    /\ IF config.WorkDocumentTemplateID \notin FileIDs(drive)
       THEN /\ Fatal(pc, Entry("filesCopy", 0, config.WorkDocumentTemplateID, FALSE))
            /\ UNCHANGED <<drive, f>>
       ELSE LET copy == [id |-> FreshFileID, name |-> <<targetDocumentName>>,
                         parents |-> <<template.parents[1]>>, batch |-> <<>>] IN
            /\ drive' = Append(drive, copy)
            /\ f' = copy
            /\ log' = Append(log, Entry("filesCopy", 0, config.WorkDocumentTemplateID, TRUE))
            /\ pc' = "docsBatchUpdate"
            /\ fatalMsg' = fatalMsg
    /\ UNCHANGED <<targetTime, config, init0, mainVars, sheetVars,
                   template, targetDocumentName, listing, nextPageToken, toDelete, req, slots>>

\* the batch is built, then doc.Documents.BatchUpdate(f.Id, {Requests: req})
DocsBatchUpdate ==
    /\ pc = "docsBatchUpdate"
    /\ LET b == BuildRequests(targetTime)
           k == CHOOSE i \in 1..Len(drive) : drive[i].id = f.id IN
       /\ req' = b.req
       /\ slots' = b.slots
       /\ drive' = [drive EXCEPT ![k].batch = b.req]
    /\ log' = Append(log, Entry("docsBatchUpdate", 0, f.id, TRUE))
    /\ pc' = "filesExport"
    /\ UNCHANGED <<fatalMsg, targetTime, config, init0, mainVars, sheetVars,
                   template, targetDocumentName, listing, nextPageToken, toDelete, f>>

\* drv.Files.Export(f.Id, "application/pdf").Download() and ioutil.ReadAll
FilesExport ==
    /\ pc = "filesExport"
    /\ log' = Append(log, Entry("filesExport", 0, f.id, TRUE))
    /\ pc' = "docSave"
    /\ UNCHANGED <<fatalMsg, targetTime, config, init0, mainVars, sheetVars, docVars>>

\* ioutil.WriteFile(fmt.Sprintf("%s.pdf", f.Name), data, 0666)
DocSave ==
    /\ pc = "docSave"
    /\ log' = Append(log, Entry("docSave", 0, f.id, TRUE))
    /\ pc' = "docsReturned"
    /\ UNCHANGED <<fatalMsg, targetTime, config, init0, mainVars, sheetVars, docVars>>

NextDocs ==
    \/ FilesGet
    \/ FilesList
    \/ FilesDelete
    \/ FilesCopy
    \/ DocsBatchUpdate
    \/ FilesExport
    \/ DocSave
    \/ RemoteFails

(* --------------------------------- main ------------------------------- *)
\* strings.ToLower on the answers considered
ToLower(a) ==
    CASE a = "Y" -> "y"
      [] a = "N" -> "n"
      [] a = "Yes" -> "yes"
      [] OTHER -> a

\* the test that takes only "n" for a no
DeclinesOnlyN(a) == ToLower(a) = "n"

\* ans != "" && strings.ToLower(ans) != "y"
Declines(a) == a # "" /\ ToLower(a) # "y"

\* what fmt.Scanln(&ans) may leave in ans
Answers == {"", "y", "Y", "n", "N", "yes", "Yes", "yy"}

\* TimeMin(targetTime.AddDate(0, -1, -1))
TimeMin(t) == PrevDay(AddMonths(t, -1))

\* The calendar holds groups of `count` events with the same start and
\* summary.  Take(groups, n) is the first n events of the groups.
RECURSIVE Take(_, _)
Take(groups, n) ==
    IF groups = <<>> \/ n = 0 THEN <<>>
    ELSE LET g == Head(groups)
             c == Min(g.count, n) IN
         <<[g EXCEPT !.count = c]>> \o Take(Tail(groups), n - c)

\* cal.Events.List(...).TimeMin(...).MaxResults(999).OrderBy("startTime").Do():
\* the first page of the events from TimeMin on; no further page is asked for
EventsList(cal, t) ==
    Take(SelectSeq(cal, LAMBDA g : AbsDays(g.start) >= AbsDays(TimeMin(t))), MaxResults)

\* for _, item := range events.Items { ...; workDays = append(workDays, date) }
RECURSIVE CollectWorkDays(_, _, _)
CollectWorkDays(items, t, title) ==
    IF items = <<>> THEN <<>>
    ELSE LET g == Head(items) IN
         (IF g.start.y = t.y /\ g.start.m = t.m /\ g.summary = title
          THEN [i \in 1..g.count |-> g.start]
          ELSE <<>>) \o CollectWorkDays(Tail(items), t, title)

\* fmt.Scanln(&ans); if ans != "" && strings.ToLower(ans) != "y" { os.Exit(0) }
Confirm ==
    /\ pc = "prompt"
    /\ \E a \in Answers :
          /\ ans' = a
          /\ pc' = IF Declines(a) THEN "exited" ELSE "eventsList"
    /\ UNCHANGED <<fatalMsg, targetTime, config, log, init0, calendar, workDays,
                   sheetVars, docVars>>

\* days := getWorkDays(ctx, client, targetTime, config), then the call of
\* updateAndDownloadWorkSpreadsheets up to its first remote call
GetWorkDays ==
    /\ pc = "eventsList"
    /\ workDays' = CollectWorkDays(EventsList(calendar, targetTime), targetTime,
                                   config.WorkDayTitle)
    /\ log' = Append(log, Entry("eventsList", 0, 0, TRUE))
    /\ cur' = 1
    /\ pc' = IF config.WorkSpreadsheetIDs = <<>> THEN "sheetsReturned" ELSE "sheetsGet"
    /\ UNCHANGED <<fatalMsg, targetTime, config, init0, ans, calendar, docVars,
                   spreadsheet, targetSheetID, values, books, snap, run>>

\* updateAndDownloadWorkDocuments(ctx, client, targetTime, config)
CallDocuments ==
    /\ pc = "sheetsReturned"
    /\ pc' = "filesGet"
    /\ UNCHANGED <<fatalMsg, targetTime, config, log, init0, mainVars, sheetVars, docVars>>

\* log.Println("Done")
Finish ==
    /\ pc = "docsReturned"
    /\ pc' = "done"
    /\ UNCHANGED <<fatalMsg, targetTime, config, log, init0, mainVars, sheetVars, docVars>>

Next ==
    \/ Confirm
    \/ GetWorkDays
    \/ SheetsGet
    \/ SheetsCopyTo
    \/ SheetsBatchUpdate
    \/ ValuesUpdateM3
    \/ ValuesUpdateD7
    \/ SheetExport
    \/ SheetExportRefused
    \/ SheetSave
    \/ CallDocuments
    \/ FilesGet
    \/ FilesList
    \/ FilesDelete
    \/ FilesCopy
    \/ DocsBatchUpdate
    \/ FilesExport
    \/ DocSave
    \/ Finish
    \/ RemoteFails

(* ----------------------------- initial states ------------------------- *)
RECURSIVE SeqsUpTo(_, _)
SeqsUpTo(S, n) ==
    IF n = 0 THEN {<<>>}
    ELSE LET shorter == SeqsUpTo(S, n - 1) IN
         shorter \cup {Append(q, x) : q \in {r \in shorter : Len(r) = n - 1}, x \in S}

Months == {Date(y, m, 1) : y \in MinYear..MaxYear, m \in 1..12}

\* a month with 29 days, and a January, whose previous month is of another year
SomeMonths == {Date(2024, 2, 1), Date(2024, 1, 1)}

LastDay(t) == PrevDay(AddMonths(t, 1))

\* what a page holds before the run: the cells of an earlier month
StaleColumn == [i \in 1..ColumnLen |-> IF i \in {1, 31} THEN "10:00" ELSE ""]

MonthPage(id, t) ==
    [id |-> id, title |-> FormatCompact(t), m3 |-> FormatSlashed(t), col |-> StaleColumn]

OtherPage(id) ==
    [id |-> id, title |-> "Sheet1", m3 |-> "", col |-> [i \in 1..ColumnLen |-> ""]]

\* the pages a spreadsheet may hold: of the target month, of the two months
\* before it, and one that is of no month
PageKinds == {"target", "prev", "prevprev", "other"}

PageOf(kind, id, t) ==
    CASE kind = "target" -> MonthPage(id, t)
      [] kind = "prev" -> MonthPage(id, AddMonths(t, -1))
      [] kind = "prevprev" -> MonthPage(id, AddMonths(t, -2))
      [] kind = "other" -> OtherPage(id)

\* page lists of distinct titles; the identifiers are distinct, and `shift`
\* decides which page, if any, has identifier 0
PageLists(t) ==
    {[i \in 1..Len(kinds) |-> PageOf(kinds[i], (i + shift) % (MaxPages + 2), t)] :
        kinds \in {q \in SeqsUpTo(PageKinds, MaxPages) :
                      \A i, j \in 1..Len(q) : i # j => q[i] # q[j]},
        shift \in 0..(MaxPages + 1)}

Book(title, sheets) == [title |-> title, sheets |-> sheets]

\* one spreadsheet to clone in, one that has the month's page already
PlainBooks(t) ==
    [s \in {"s1", "s2"} |->
        IF s = "s1" THEN Book("hours", <<MonthPage(4, AddMonths(t, -1)), OtherPage(9)>>)
        ELSE Book("costs", <<MonthPage(7, t), MonthPage(3, AddMonths(t, -1))>>)]

WideBooks(t) ==
    {[s \in {"s1", "s2"} |-> IF s = "s1" THEN Book("hours", p) ELSE Book("costs", q)] :
        p \in PageLists(t),
        q \in {<<MonthPage(3, AddMonths(t, -1))>>, <<MonthPage(7, t)>>}}

File(id, name, parents) == [id |-> id, name |-> name, parents |-> parents, batch |-> <<>>]

\* template names: with the token, without it, and with it twice
TemplateNames == {<<"Invoice ", "yyyymm">>, <<"Invoice">>, <<"yyyymm", "_", "yyyymm">>}

FileKinds == {"same", "elsewhere", "other"}

\* a file beside the template: named like the month's document, in the
\* folder or in another one, or named otherwise
FileOf(kind, id, tname, t) ==
    CASE kind = "same" -> File(id, <<TargetDocumentName(tname, t)>>, <<"folder">>)
      [] kind = "elsewhere" -> File(id, <<TargetDocumentName(tname, t)>>, <<"attic">>)
      [] kind = "other" -> File(id, <<"notes">>, <<"folder">>)

\* what the drive holds: the files beside the template, the template's name
\* and parents, and whether the template is the first or the last of the files
Shelf(kinds, tname, first, parents) ==
    [kinds |-> kinds, tname |-> tname, first |-> first, parents |-> parents]

\* a file's identifier is its place among the files
DriveOf(sh, t) ==
    LET n == Len(sh.kinds) IN
    IF sh.first
    THEN <<File(1, sh.tname, sh.parents)>>
           \o [i \in 1..n |-> FileOf(sh.kinds[i], i + 1, sh.tname, t)]
    ELSE [i \in 1..n |-> FileOf(sh.kinds[i], i, sh.tname, t)]
           \o <<File(n + 1, sh.tname, sh.parents)>>

TemplateID(sh) == IF sh.first THEN 1 ELSE Len(sh.kinds) + 1

PlainShelf == Shelf(<<"same", "other", "same">>, <<"Invoice ", "yyyymm">>, TRUE, <<"folder">>)

PlainShelves ==
    {PlainShelf,
     Shelf(<<>>, <<"Invoice ", "yyyymm">>, TRUE, <<"folder">>),
     Shelf(<<"other">>, <<"Invoice">>, FALSE, <<"folder">>)}

WideShelves ==
    {Shelf(kinds, tname, first, <<"folder">>) :
        kinds \in SeqsUpTo(FileKinds, MaxFiles),
        tname \in TemplateNames,
        first \in BOOLEAN}
      \cup {Shelf(<<"same">>, <<"Invoice ", "yyyymm">>, TRUE, <<>>)}

\* the events a calendar may hold around the target month
EventStarts(t) ==
    {PrevDay(TimeMin(t)), AddMonths(t, -1), Date(t.y, t.m, 15), AddMonths(t, 1)}

EventGroups(t) ==
    {[start |-> d, summary |-> s, count |-> c] :
        d \in EventStarts(t), s \in {"work", "lunch"}, c \in {1, MaxResults}}

\* OrderBy("startTime"): the calendar's events are in the order of their starts
Calendars(t) ==
    {q \in SeqsUpTo(EventGroups(t), MaxGroups) :
        \A i \in 1..(Len(q) - 1) : AbsDays(q[i].start) <= AbsDays(q[i + 1].start)}

PlainCalendar(t) ==
    <<[start |-> Date(t.y, t.m, 3), summary |-> "work", count |-> 1],
      [start |-> Date(t.y, t.m, 10), summary |-> "work", count |-> 1]>>

\* work days a caller may hand over: of the target month, of another month,
\* of the same month of another year
WorkDayLists(t) ==
    SeqsUpTo({Date(t.y, t.m, 3), Date(t.y, t.m, 10), LastDay(t),
              AddMonths(Date(t.y, t.m, 3), 1), Date(t.y + 1, t.m, 10)}, MaxWorkDays)

StartTimes == {"09:00", ""}

ConfigOf(start, sh) ==
    [CalendarID |-> "primary",
     WorkDayTitle |-> "work",
     WorkStartTime |-> start,
     WorkSpreadsheetIDs |-> <<"s1", "s2">>,
     WorkDocumentTemplateID |-> TemplateID(sh)]

NoFile == [id |-> 0, name |-> <<>>, parents |-> <<>>, batch |-> <<>>]

\* the process at `start`, with nothing fetched or computed yet
Setup(start, t, cfg, cal, days, bk, dr) ==
    /\ pc = start
    /\ fatalMsg = ""
    /\ run = 1
    /\ ans = ""
    /\ targetTime = t
    /\ config = cfg
    /\ calendar = cal
    /\ workDays = days
    /\ cur = 1
    /\ spreadsheet = Book("", <<>>)
    /\ targetSheetID = 0
    /\ values = <<>>
    /\ books = bk
    /\ snap = bk
    /\ drive = dr
    /\ template = NoFile
    /\ targetDocumentName = ""
    /\ listing = <<>>
    /\ nextPageToken = 0
    /\ toDelete = <<>>
    /\ f = NoFile
    /\ req = <<>>
    /\ slots = 0
    /\ log = <<>>
    /\ init0 = [books |-> bk, drive |-> dr]

\* the whole program
Init ==
    \E t \in SomeMonths : \E cal \in {PlainCalendar(t), <<>>} : \E sh \in PlainShelves :
        Setup("prompt", t, ConfigOf("09:00", sh), cal, <<>>,
              PlainBooks(t), DriveOf(sh, t))

Spec == Init /\ [][Next]_vars

\* getWorkDays, over the events the calendar holds
InitCalendar ==
    \E t \in SomeMonths : \E cal \in Calendars(t) :
        Setup("eventsList", t, ConfigOf("09:00", PlainShelf), cal, <<>>,
              PlainBooks(t), DriveOf(PlainShelf, t))

NextCalendar ==
    \/ GetWorkDays
    \/ RemoteFails

SpecCalendar == InitCalendar /\ [][NextCalendar]_vars

\* updateAndDownloadWorkSpreadsheets, over the work days and start times handed to it
InitColumn ==
    \E t \in SomeMonths : \E days \in WorkDayLists(t) : \E start \in StartTimes :
        Setup("sheetsGet", t, ConfigOf(start, PlainShelf), <<>>, days,
              PlainBooks(t), DriveOf(PlainShelf, t))

SpecColumn == InitColumn /\ [][NextSheets]_vars

\* updateAndDownloadWorkSpreadsheets, over the pages the spreadsheets hold
InitPages ==
    \E t \in SomeMonths : \E bk \in WideBooks(t) :
        Setup("sheetsGet", t, ConfigOf("09:00", PlainShelf), <<>>,
              <<Date(t.y, t.m, 3), Date(t.y, t.m, 10)>>, bk, DriveOf(PlainShelf, t))

SpecPages == InitPages /\ [][NextSheets]_vars

\* updateAndDownloadWorkDocuments, over the target months
InitDocs ==
    \E t \in Months : \E sh \in PlainShelves :
        Setup("filesGet", t, ConfigOf("09:00", sh), <<>>, <<>>,
              PlainBooks(t), DriveOf(sh, t))

SpecDocs == InitDocs /\ [][NextDocs]_vars

\* updateAndDownloadWorkDocuments, over the files of the template's folder
InitFolder ==
    \E t \in SomeMonths : \E sh \in WideShelves :
        Setup("filesGet", t, ConfigOf("09:00", sh), <<>>, <<>>,
              PlainBooks(t), DriveOf(sh, t))

SpecFolder == InitFolder /\ [][NextDocs]_vars

(* ------------------------------- properties --------------------------- *)
\* the remote call `op` for spreadsheet `idx` was issued and succeeded
Issued(op, idx) == \E i \in 1..Len(log) : log[i].op = op /\ log[i].idx = idx /\ log[i].ok

\* the day indices of the work days that are of the target month
WorkDayIndices ==
    {d.d : d \in {x \in Range(workDays) : x.y = targetTime.y /\ x.m = targetTime.m}}

\* the page of the target month in the j-th spreadsheet of the list
TargetPage(j) ==
    LET sheets == books[config.WorkSpreadsheetIDs[j]].sheets IN
    sheets[PageTitled(sheets, FormatCompact(targetTime))]

\* C1 as stated: the column has 31 cells, cell i is the start time if and only
\* if some work day is day i of the target month, and every other cell is empty
ColumnMarksIff ==
    values # <<>> =>
        /\ Len(values) = 31
        /\ \A i \in 1..31 :
              /\ values[i] = config.WorkStartTime <=> i \in WorkDayIndices
              /\ i \notin WorkDayIndices => values[i] = ""

\* C1 amended: the column has 31 cells, cell i is the start time when some
\* work day is day i of the target month and is empty otherwise, so that for a
\* start time that is not the empty string cell i is the start time if and only
\* if day i is a work day; the column stored in D7:D37 is the column built
ColumnMarksWorkDays ==
    /\ values # <<>> =>
          /\ Len(values) = 31
          /\ \A i \in 1..31 :
                /\ i \in WorkDayIndices => values[i] = config.WorkStartTime
                /\ i \notin WorkDayIndices => values[i] = ""
                /\ config.WorkStartTime # "" =>
                      (values[i] = config.WorkStartTime <=> i \in WorkDayIndices)
    /\ \A j \in 1..Len(config.WorkSpreadsheetIDs) :
          Issued("valuesUpdateD7", j) => TargetPage(j).col = values

\* a column was written from work days of which one is of another month, and
\* day 3 is marked
ColumnWitness ==
    /\ pc = "sheetExport"
    /\ config.WorkStartTime = "09:00"
    /\ values[3] = "09:00"
    /\ values[10] = ""
    /\ \E d \in Range(workDays) : d.m # targetTime.m
    /\ TargetPage(cur).col = values

\* the Monday, Wednesday and Friday dates of the target month
SlotDays(t) == {d \in 1..DaysIn(t.y, t.m) : Weekday(Date(t.y, t.m, d)) \in {1, 3, 5}}

\* the i-th of them
NthSlotDay(t, i) ==
    CHOOSE d \in SlotDays(t) : Cardinality({e \in SlotDays(t) : e <= d}) = i

\* the values the batch gives a token, and where in the batch the token is
ValuesOf(key) == {r.value : r \in {x \in Range(req) : x.key = key}}
PlacesOf(key) == {j \in 1..Len(req) : req[j].key = key}

\* C2: slot i of the k filled ones holds the i-th Monday/Wednesday/Friday date
\* of the target month as month/day with hours "8", in the order of the dates;
\* k is the number of such dates but at most 12; the slots after k are empty;
\* totalHours is 8*k; for 2024-02, k = 12, day12 = "2/28", totalHours = "96"
SlotWalkFillsInOrder ==
    req # <<>> =>
        LET t == targetTime
            k == slots IN
        /\ k <= 12
        /\ k = Min(12, Cardinality(SlotDays(t)))
        /\ \A i \in 1..k :
              /\ ValuesOf(DayKey(i)) =
                    {ToString(t.m) \o "/" \o ToString(NthSlotDay(t, i))}
              /\ ValuesOf(HoursKey(i)) = {"8"}
        /\ \A i, j \in 1..k :
              i < j => \A a \in PlacesOf(DayKey(i)), b \in PlacesOf(DayKey(j)) : a < b
        /\ \A i \in (k + 1)..12 :
              ValuesOf(DayKey(i)) = {""} /\ ValuesOf(HoursKey(i)) = {""}
        /\ ValuesOf("{{totalHours}}") = {ToString(8 * k)}
        /\ t = Date(2024, 2, 1) =>
              /\ k = 12
              /\ ValuesOf("{{day12}}") = {"2/28"}
              /\ ValuesOf("{{totalHours}}") = {"96"}

\* the batch of a month with more than 12 qualifying dates was built
SlotWalkWitness ==
    /\ req # <<>>
    /\ Cardinality(SlotDays(targetTime)) > 12
    /\ slots = 12
    /\ ValuesOf("{{day1}}") # {""}

\* the tokens of the placeholder vocabulary
Tokens ==
    {"{{year}}", "{{month}}", "{{day}}", "{{totalHours}}"}
      \cup {"{{day" \o ToString(i) \o "}}" : i \in 1..12}
      \cup {"{{day" \o ToString(i) \o "Hours}}" : i \in 1..12}

\* C8: the batch sent to the target document holds exactly one request for
\* each of the 28 tokens, and no other request
BatchAddressesEachTokenOnce ==
    req # <<>> =>
        /\ Cardinality(Tokens) = 28
        /\ Len(req) = 28
        /\ \A tok \in Tokens : Cardinality(PlacesOf(tok)) = 1
        /\ \E i \in 1..Len(drive) : drive[i].id = f.id /\ drive[i].batch = req
        /\ Last(log).op = "docsBatchUpdate" => Last(log).arg = f.id

\* the batch of a 31-day month was sent to the copy
BatchWitness ==
    /\ pc = "filesExport"
    /\ DaysIn(targetTime.y, targetTime.m) = 31
    /\ Len(req) = 28
    /\ f.id \notin FileIDs(init0.drive)

\* the files of the template's folder that have the target name
Named(files) ==
    {x \in Range(files) : template.parents[1] \in Range(x.parents)
                          /\ Join(x.name) = targetDocumentName}

\* C6: when the copy request is issued no file of the folder that had the
\* target name before the run is left, and once the copy is made the folder
\* holds exactly one file of the target name, the fresh copy of the template
TargetDocumentReplaced ==
    /\ pc = "filesCopy" =>
          \A x \in Named(init0.drive) : x.id \notin FileIDs(drive)
    /\ pc \in {"docsBatchUpdate", "filesExport", "docSave", "docsReturned"} =>
          /\ \A x \in Named(init0.drive) : x.id \notin FileIDs(drive)
          /\ {x.id : x \in Named(drive)} = {f.id}
          /\ f.id \notin FileIDs(init0.drive)
          /\ Join(f.name) = targetDocumentName

\* a run that ended well in a folder that held files of the target name on
\* the first and on a later page of the listing
TargetDocumentWitness ==
    /\ pc = "docsReturned"
    /\ \E i \in 1..Min(PageSize, Len(listing)) : listing[i] \in Named(init0.drive)
    /\ \E i \in (PageSize + 1)..Len(listing) : listing[i] \in Named(init0.drive)

\* the events of the calendar that are of the target month and have the marker
MarkedStarts ==
    {g.start : g \in {x \in Range(calendar) :
                         /\ x.summary = config.WorkDayTitle
                         /\ x.start.y = targetTime.y
                         /\ x.start.m = targetTime.m}}

\* C7: the work days returned hold the date of every event of the target
\* month that has the marker, and no other date
WorkDaysComplete ==
    Issued("eventsList", 0) => Range(workDays) = MarkedStarts

\* the steps of the loop body that follow the searches through the page list
AfterLookup == {"sheetsCopyTo", "sheetsBatchUpdate", "valuesUpdateM3",
                "valuesUpdateD7", "sheetExport", "sheetSave"}
AfterRename == {"valuesUpdateM3", "valuesUpdateD7", "sheetExport", "sheetSave"}

HasTitle(sheets, title) == \E i \in 1..Len(sheets) : sheets[i].title = title

\* the fetched page list holds a page of the target month
HadTarget == HasTitle(spreadsheet.sheets, FormatCompact(targetTime))

Cloned(idx) == \E i \in 1..Len(log) : log[i].op = "sheetsCopyTo" /\ log[i].idx = idx

\* C3: a page is duplicated if and only if the fetched list holds no page of
\* the target month: with such a page its identifier is the target identifier
\* and no duplicate or rename request is issued; without one the page of the
\* previous month is duplicated, and the duplicate, renamed and moved to the
\* front, is the target page, whose identifier goes into the export
PageClonedIffAbsent ==
    /\ pc \in AfterLookup /\ HadTarget =>
          /\ pc \notin {"sheetsCopyTo", "sheetsBatchUpdate"}
          /\ ~Cloned(cur)
          /\ \E i \in 1..Len(spreadsheet.sheets) :
                /\ spreadsheet.sheets[i].title = FormatCompact(targetTime)
                /\ spreadsheet.sheets[i].id = targetSheetID
    /\ pc \in AfterRename /\ ~HadTarget =>
          /\ Cloned(cur)
          /\ targetSheetID \notin SheetIDs(spreadsheet.sheets)
          /\ books[spreadsheetID].sheets[1].id = targetSheetID
          /\ books[spreadsheetID].sheets[1].title = FormatCompact(targetTime)
    /\ pc = "sheetSave" => Last(log).arg = TargetPage(cur).id

\* C4: with neither a page of the target month nor one of the month before
\* it in the fetched list, the run ends fatally right after the fetch, with no
\* further request for the spreadsheet and the spreadsheet as it was
NoSourceIsFatal ==
    /\ Issued("sheetsGet", cur)
    /\ ~HadTarget
    /\ ~HasTitle(spreadsheet.sheets, FormatCompact(AddMonths(targetTime, -1)))
    => /\ pc = "fatal"
       /\ fatalMsg = "Failed to determine sheet to copy"
       /\ Last(log) = Entry("sheetsGet", cur, 0, TRUE)
       /\ books[spreadsheetID] = spreadsheet

\* the run ended for want of a page to copy although a page of an earlier
\* month was there
NoSourceWitness ==
    /\ pc = "fatal"
    /\ fatalMsg = "Failed to determine sheet to copy"
    /\ ~HadTarget
    /\ HasTitle(spreadsheet.sheets, FormatCompact(AddMonths(targetTime, -2)))
    /\ books = init0.books

\* no remote call or file write of the run has failed, and it was not ended
NoFailure == pc # "fatal" /\ \A i \in 1..Len(log) : log[i].ok

\* C5: while a second run with the same arguments goes without a failure, the
\* spreadsheets are as the first run left them: no page is added, and M3 and
\* D7:D37 of every page hold what they held
SecondRunChangesNothing ==
    run >= 2 /\ NoFailure => books = snap

\* a second run ended well after a first one that cloned a page
SecondRunWitness ==
    /\ run = 2
    /\ pc = "sheetsReturned"
    /\ books = snap
    /\ \E s \in DOMAIN books : Len(books[s].sheets) > Len(init0.books[s].sheets)

\* the place of a step in the order of a run
StepRank(op) ==
    CASE op = "eventsList" -> 0
      [] op = "sheetsGet" -> 1
      [] op = "sheetsCopyTo" -> 2
      [] op = "sheetsBatchUpdate" -> 3
      [] op = "valuesUpdateM3" -> 4
      [] op = "valuesUpdateD7" -> 5
      [] op = "sheetExport" -> 6
      [] op = "sheetSave" -> 7
      [] op = "filesGet" -> 8
      [] op \in {"filesList", "filesDelete"} -> 9
      [] op = "filesCopy" -> 10
      [] op = "docsBatchUpdate" -> 11
      [] op = "filesExport" -> 12
      [] op = "docSave" -> 13

\* entry b may follow entry a
MayFollow(a, b) ==
    LET n == Len(config.WorkSpreadsheetIDs) IN
    CASE b.op = "sheetsGet" ->
            \/ a.op = "eventsList" /\ b.idx = 1
            \/ a.op = "sheetSave" /\ b.idx = a.idx + 1
      [] b.op \in SheetSteps \ {"sheetsGet"} ->
            a.op \in SheetSteps /\ a.idx = b.idx /\ StepRank(a.op) < StepRank(b.op)
      [] b.op = "filesGet" ->
            \/ a.op = "sheetSave" /\ a.idx = n
            \/ a.op = "eventsList" /\ n = 0
      [] b.op \in {"filesList", "filesDelete"} ->
            a.op \in {"filesGet", "filesList", "filesDelete"}
      [] OTHER ->
            a.op \in DocSteps /\ StepRank(a.op) < StepRank(b.op)

\* what the spreadsheet's target page must hold once the column is written
Synced(j) ==
    /\ TargetPage(j).m3 = FormatSlashed(targetTime)
    /\ \A i \in 1..31 :
          TargetPage(j).col[i] = (IF i \in WorkDayIndices THEN config.WorkStartTime ELSE "")

\* C9: the calls of a run are issued one after the other in the order event
\* query, each spreadsheet of the list in turn (get, copy, rename, M3, column,
\* export, save), the templater; a call that fails is the last one of the run;
\* what was written to a spreadsheet stays written when a later call fails
SequentialAndFatal ==
    /\ log # <<>> => log[1].op = "eventsList"
    /\ \A i \in 1..(Len(log) - 1) : log[i].ok /\ MayFollow(log[i], log[i + 1])
    /\ (log # <<>> /\ ~Last(log).ok) => pc = "fatal"
    /\ \A j \in 1..Len(config.WorkSpreadsheetIDs) :
          Issued("valuesUpdateD7", j) => Synced(j)

BatchValues == {req[j].value : j \in 1..Len(req)}

\* C11: for every target month the walk fills all 12 slots: a month has at
\* least 28 days and so at least 12 Monday/Wednesday/Friday dates, k = 12,
\* totalHours is "96", no slot is blanked, and the 13th and 14th qualifying
\* dates of a month that has them are in no request
SlotWalkAlwaysFull ==
    req # <<>> =>
        LET t == targetTime
            n == Cardinality(SlotDays(t)) IN
        /\ DaysIn(t.y, t.m) >= 28
        /\ n \in 12..14
        /\ slots = 12
        /\ ValuesOf("{{totalHours}}") = {"96"}
        /\ \A i \in 1..12 :
              /\ "" \notin ValuesOf(DayKey(i))
              /\ "" \notin ValuesOf(HoursKey(i))
              /\ Cardinality(PlacesOf(DayKey(i))) = 1
        /\ \A i \in 13..n :
              /\ PlacesOf(DayKey(i)) = {}
              /\ (ToString(t.m) \o "/" \o ToString(NthSlotDay(t, i))) \notin BatchValues

\* the batch of a month with 14 qualifying dates was sent and the run ended:
\* day12 holds the 12th date, the 14th is nowhere
SlotWalkFullWitness ==
    /\ pc = "docsReturned"
    /\ Cardinality(SlotDays(targetTime)) = 14
    /\ slots = 12
    /\ ValuesOf("{{day12}}") =
          {ToString(targetTime.m) \o "/" \o ToString(NthSlotDay(targetTime, 12))}
    /\ "" \notin BatchValues

\* C12: the template document is never deleted: whatever the template's name
\* and the files of its folder, the template still exists when the copy
\* request is issued
TemplateSurvives ==
    /\ pc = "filesCopy" => config.WorkDocumentTemplateID \in FileIDs(drive)
    /\ \A i \in 1..Len(log) :
          log[i].op = "filesDelete" /\ log[i].ok =>
              log[i].arg # config.WorkDocumentTemplateID

====
